---- MODULE Spec2Model ----
(***************************************************************************)
(* The job-listing classification and reordering engine of the LinkedIn    *)
(* job filter extension (class JobFilterExtension), as a state machine.    *)
(*                                                                         *)
(* The repository holds two builds of the content script.  They share the  *)
(* ledger, the sort and the reactor and differ in how a card's time is     *)
(* derived, in the sign of the "recent" comparator for cards without a     *)
(* time, and in the floating control panel:                                *)
(*   build = "popup"  the build driven by the popup only; it parses the    *)
(*                    relative time text ("2 hours ago")                   *)
(*   build = "panel"  src/content.ts; it reads the datetime attribute and  *)
(*                    injects the floating control panel                   *)
(***************************************************************************)
EXTENDS Integers, Sequences, FiniteSets, TLC

VARIABLES
    build,          \* which build of the content script runs in the page
    doc,            \* the job cards of the page, in document order
    card,           \* card[j]: the content of job card j (status text, time)
    classList,      \* classList[j]: the marker classes the engine put on j
    settings,       \* this.settings
    originalOrder,  \* this.originalOrder: Map<Element, number>
    timers,         \* number of setTimeout callbacks scheduled and not fired
    observing,      \* the MutationObserver is registered on the job list
    storage,        \* chrome.storage.local['linkedinJobFilter'], or NoValue
    loadPending,    \* the storage read of loadSettings has not called back
    lastOp,         \* the handler that ran last
    responses,      \* the sendResponse calls made for the last request
    popup           \* the popup page (control surface) and its requests

vars == <<build, doc, card, classList, settings, originalOrder, timers,
          observing, storage, loadPending, lastOp, responses, popup>>

-----------------------------------------------------------------------------
(* Bounds of the model                                                     *)

MaxItems == 3

MaxTimers == 3

MaxDrift == 1

-----------------------------------------------------------------------------
(* Text, as JavaScript strings: sequences of one-character strings          *)

Upper == <<"A","B","C","D","E","F","G","H","I","J","K","L","M",
           "N","O","P","Q","R","S","T","U","V","W","X","Y","Z">>

Lower == <<"a","b","c","d","e","f","g","h","i","j","k","l","m",
           "n","o","p","q","r","s","t","u","v","w","x","y","z">>

Digits == <<"0","1","2","3","4","5","6","7","8","9">>

WhiteSpace == {" ", "\t", "\n", "\r", "\f"}

IndexIn(c, s) ==
    IF \E i \in DOMAIN s : s[i] = c
    THEN CHOOSE i \in DOMAIN s : s[i] = c
    ELSE 0

LowerChar(c) == IF IndexIn(c, Upper) > 0 THEN Lower[IndexIn(c, Upper)] ELSE c

toLowerCase(s) == [i \in DOMAIN s |-> LowerChar(s[i])]

\* String.prototype.trim: drop leading and trailing white space
trimTo(s, inked) ==
    IF inked = {} THEN <<>>
    ELSE SubSeq(s, CHOOSE i \in inked : \A k \in inked : i <= k,
                   CHOOSE i \in inked : \A k \in inked : i >= k)

trim(s) == trimTo(s, {i \in DOMAIN s : s[i] \notin WhiteSpace})

\* needle occurs in s starting at position i (case-sensitive)
OccursAt(s, i, needle) ==
    /\ i >= 1
    /\ i + Len(needle) - 1 <= Len(s)
    /\ \A k \in 1..Len(needle) : s[i + k - 1] = needle[k]

\* String.prototype.includes
includes(s, needle) == \E i \in 1..(Len(s) + 1) : OccursAt(s, i, needle)

\* String.prototype.split('\n')
RECURSIVE splitLines(_)
splitLines(s) ==
    IF \E i \in DOMAIN s : s[i] = "\n"
    THEN LET cut == CHOOSE i \in DOMAIN s :
                        s[i] = "\n" /\ \A k \in 1..(i - 1) : s[k] # "\n"
         IN  <<SubSeq(s, 1, cut - 1)>> \o splitLines(SubSeq(s, cut + 1, Len(s)))
    ELSE <<s>>

\* parseInt(digits, 10) of a run of decimal digits
RECURSIVE parseInt(_)
parseInt(ds) ==
    IF ds = <<>> THEN 0
    ELSE 10 * parseInt(SubSeq(ds, 1, Len(ds) - 1))
         + (IndexIn(ds[Len(ds)], Digits) - 1)

-----------------------------------------------------------------------------
(* parseRelativeTime: /(\d+)\s+(minute|hour|day|week)s?\s+ago/i             *)

\* a nullable value is a sequence: <<>> is null, <<v>> holds v
NoTime == <<>>

UnitChars == [minute |-> <<"m","i","n","u","t","e">>,
              hour   |-> <<"h","o","u","r">>,
              day    |-> <<"d","a","y">>,
              week   |-> <<"w","e","e","k">>]

AgoChars == <<"a","g","o">>

msPerUnit == [minute |-> 60 * 1000,
              hour   |-> 60 * 60 * 1000,
              day    |-> 24 * 60 * 60 * 1000,
              week   |-> 7 * 24 * 60 * 60 * 1000]

\* end (exclusive) of the longest run of characters of `set` starting at i
RunEnd(s, i, set) ==
    IF \E j \in i..Len(s) : s[j] \notin set
    THEN CHOOSE j \in i..Len(s) :
             s[j] \notin set /\ \A k \in i..(j - 1) : s[k] \in set
    ELSE Len(s) + 1

DigitSet == {Digits[i] : i \in DOMAIN Digits}

\* The regular expression, matched piece by piece against the lower-cased
\* text low (the i flag); each piece is greedy, and no shorter match of a
\* piece lets the rest match.  The result is <<>> or <<value, unit>>.

\* \s+ago from position sEnd
matchAgo(low, sEnd, value, unit) ==
    LET aPos == RunEnd(low, sEnd, WhiteSpace)
    IN  IF aPos > sEnd /\ OccursAt(low, aPos, AgoChars)
        THEN <<value, unit>>
        ELSE <<>>

\* s? from position uEnd
matchPlural(low, uEnd, value, unit) ==
    matchAgo(low,
             IF uEnd <= Len(low) /\ low[uEnd] = "s" THEN uEnd + 1 ELSE uEnd,
             value, unit)

\* (minute|hour|day|week) from position wEnd
matchUnit(low, wEnd, value) ==
    LET units == {u \in DOMAIN UnitChars : OccursAt(low, wEnd, UnitChars[u])}
    IN  IF units = {} THEN <<>>
        ELSE LET unit == CHOOSE u \in units : TRUE
             IN  matchPlural(low, wEnd + Len(UnitChars[unit]), value, unit)

\* \s+ from position dEnd
matchSpace(low, dEnd, value) ==
    LET wEnd == RunEnd(low, dEnd, WhiteSpace)
    IN  IF wEnd = dEnd THEN <<>> ELSE matchUnit(low, wEnd, value)

\* (\d+) from position i to position dEnd
matchDigits(s, i, dEnd) ==
    IF dEnd = i THEN <<>>
    ELSE matchSpace(toLowerCase(s), dEnd, parseInt(SubSeq(s, i, dEnd - 1)))

\* the regular expression matched with its first character at position i
MatchAt(s, i) == matchDigits(s, i, RunEnd(s, i, DigitSet))

firstOf(set) == CHOOSE i \in set : \A k \in set : i <= k

\* String.prototype.match without the g flag: the leftmost match
match(s) ==
    LET hits == {i \in DOMAIN s : MatchAt(s, i) # <<>>}
    IN  IF hits = {} THEN <<>> ELSE MatchAt(s, firstOf(hits))

\* lines.find(line => line.includes('ago'))?.trim() || ''
findTimeLine(lines) ==
    LET withAgo == {i \in DOMAIN lines : includes(lines[i], AgoChars)}
    IN  IF withAgo = {} THEN <<>> ELSE trim(lines[firstOf(withAgo)])

\* matchOffset that converts every duration to whole hours
matchOffsetInHours(m) ==
    IF m = <<>> THEN <<>>
    ELSE <<((m[1] * msPerUnit[m[2]]) \div msPerUnit["hour"]) * msPerUnit["hour"]>>

\* value * msPerUnit[unit] for a match m, <<>> for no match
matchOffset(m) == IF m = <<>> THEN <<>> ELSE <<m[1] * msPerUnit[m[2]]>>

\* what parseRelativeTime subtracts from the clock for the text, or <<>>
\* when the text does not match
relativeOffset(text) == matchOffset(match(findTimeLine(splitLines(text))))

\* now - offset, or null
dateBefore(now, off) == IF off = <<>> THEN NoTime ELSE <<now - off[1]>>

\* the Date (<<milliseconds>>) or null that parseRelativeTime returns when
\* the clock reads now
parseRelativeTime(text, now) == dateBefore(now, relativeOffset(text))

-----------------------------------------------------------------------------
(* The page: what a job card can contain                                   *)

\* texts of the status element (.job-card-container__footer-job-state)
StateTexts ==
    << <<" ", "V", "i", "e", "w", "e", "d", " ">>,
       <<"A", "p", "p", "l", "i", "e", "d">>,
       <<"V", "i", "e", "w", "e", "d", " ", "-", " ",
         "a", "p", "p", "l", "i", "e", "d">>,
       <<"P", "r", "o", "m", "o", "t", "e", "d">> >>

\* the instant the page rendered its datetime attributes
PageInstant == 1500 * 1000 * 1000

\* time elements: the text content and the datetime attribute (<<>>: none)
SampleTimeEls ==
    << [text     |-> <<"\n", " ", " ", "1", "0", " ", "m", "i", "n", "u", "t",
                       "e", "s", " ", "a", "g", "o", "\n">>,
        datetime |-> <<PageInstant - 10 * 60 * 1000>>],
       [text     |-> <<"2", " ", "h", "o", "u", "r", "s", " ",
                       "a", "g", "o">>,
        datetime |-> <<PageInstant - 2 * 60 * 60 * 1000>>],
       [text     |-> <<"4", " ", "h", "o", "u", "r", "s", " ",
                       "a", "g", "o">>,
        datetime |-> <<PageInstant - 4 * 60 * 60 * 1000>>],
       [text     |-> <<"1", " ", "w", "e", "e", "k", " ", "a", "g", "o">>,
        datetime |-> <<PageInstant - 7 * 24 * 60 * 60 * 1000>>],
       [text     |-> <<"5", "9", " ", "m", "i", "n", "u", "t", "e", "s", " ",
                       "a", "g", "o">>,
        datetime |-> <<PageInstant - 59 * 60 * 1000>>],
       [text     |-> <<"1", " ", "h", "o", "u", "r", " ", "a", "g", "o">>,
        datetime |-> <<PageInstant - 60 * 60 * 1000>>],
       [text     |-> <<"3", " ", "D", "A", "Y", "S", " ", "A", "G", "O">>,
        datetime |-> <<PageInstant - 3 * 24 * 60 * 60 * 1000>>],
       [text     |-> <<"y", "e", "s", "t", "e", "r", "d", "a", "y">>,
        datetime |-> <<>>] >>

\* the largest count a generated time text states
MaxCount == 2

\* the decimal numeral of n
RECURSIVE digitsOf(_)
digitsOf(n) ==
    IF n < 10 THEN <<Digits[n + 1]>>
    ELSE digitsOf(n \div 10) \o <<Digits[(n % 10) + 1]>>

UnitNames == <<"minute", "hour", "day", "week">>

UnitWords == [minute |-> <<"m", "i", "n", "u", "t", "e">>,
              hour   |-> <<"h", "o", "u", "r">>,
              day    |-> <<"d", "a", "y">>,
              week   |-> <<"w", "e", "e", "k">>]

\* the text "n unit ago" or "n units ago"
agoText(n, unit, plural) ==
    digitsOf(n) \o <<" ">> \o UnitWords[unit]
        \o (IF plural THEN <<"s">> ELSE <<>>) \o <<" ", "a", "g", "o">>

\* the count, the unit and the plural of the k-th generated time element
agoCount(k) == (k - 1) \div (2 * Len(UnitNames))

agoUnit(k) == UnitNames[(((k - 1) % (2 * Len(UnitNames))) \div 2) + 1]

agoPlural(k) == (k - 1) % 2 = 1

\* time elements that say "n unit(s) ago" for n in 0..MaxCount; such an
\* element has no datetime attribute
AgoTimeEls ==
    [k \in 1..(2 * Len(UnitNames) * (MaxCount + 1)) |->
        [text     |-> agoText(agoCount(k), agoUnit(k), agoPlural(k)),
         datetime |-> <<>>]]

TimeEls == SampleTimeEls \o AgoTimeEls

\* A job card: footer is whether it has a footer wrapper, state the index in
\* StateTexts of its status element (0: none), time the index in TimeEls of
\* its time element (0: none).
Card(footer, state, time) == [footer |-> footer, state |-> state, time |-> time]

\* the readings of the clock (new Date()) a pass can start with
Instants == {PageInstant + 60 * 1000}

-----------------------------------------------------------------------------
(* Status Classifier: getJobStatus                                         *)

\* statusOfText that looks for "applied" before it looks for "viewed"
statusOfTextAppliedFirst(raw) ==
    LET text == toLowerCase(trim(raw))
    IN  IF includes(text, <<"a", "p", "p", "l", "i", "e", "d">>) THEN "applied"
        ELSE IF includes(text, <<"v", "i", "e", "w", "e", "d">>)
             THEN "viewed"
             ELSE "normal"

\* the status the classifier derives from the text of a status element
statusOfText(raw) ==
    LET text == toLowerCase(trim(raw))
    IN  IF includes(text, <<"v", "i", "e", "w", "e", "d">>) THEN "viewed"
        ELSE IF includes(text, <<"a", "p", "p", "l", "i", "e", "d">>)
             THEN "applied"
             ELSE "normal"

\* statusOfText and parseRelativeTime on the texts of the page, tabulated
StatusTable == [i \in DOMAIN StateTexts |-> statusOfText(StateTexts[i])]

TimeTable ==
    [i \in DOMAIN TimeEls |->
        [now \in Instants \cup {t + d : t \in Instants, d \in 0..(MaxDrift + 1)}
            |-> parseRelativeTime(TimeEls[i].text, now)]]

\* the status getJobStatus derives for a card
jobStatus(c) ==
    IF c.footer /\ c.state # 0 THEN StatusTable[c.state] ELSE "normal"

\* the time getJobStatus derives: the popup build parses the text content
jobTimePopup(c, now) ==
    IF c.time # 0 THEN TimeTable[c.time][now] ELSE NoTime

\* the time getJobStatus derives: the panel build reads the datetime attribute
jobTimePanel(c) ==
    IF c.time # 0 THEN TimeEls[c.time].datetime ELSE NoTime

getJobStatus(b, c, now) ==
    [status |-> jobStatus(c),
     time   |-> IF b = "popup" THEN jobTimePopup(c, now) ELSE jobTimePanel(c)]

-----------------------------------------------------------------------------
(* Sequences and JavaScript numbers                                        *)

Range(seq) == {seq[i] : i \in DOMAIN seq}

\* position of x in seq (x occurs once)
Pos(seq, x) == CHOOSE i \in DOMAIN seq : seq[i] = x

Reverse(seq) == [i \in DOMAIN seq |-> seq[Len(seq) + 1 - i]]

Remove(seq, x) == SelectSeq(seq, LAMBDA y : y # x)

\* A JavaScript number is <<"n", v>> for the finite v, or one of the three
\* values below.
Infinity == <<"Infinity">>

NegInfinity == <<"-Infinity">>

NaN == <<"NaN">>

Num(v) == <<"n", v>>

IsFinite(x) == Len(x) = 2

\* x - y
jsMinus(x, y) ==
    IF IsFinite(x) /\ IsFinite(y) THEN Num(x[2] - y[2])
    ELSE IF x = NaN \/ y = NaN THEN NaN
    ELSE IF IsFinite(x) THEN (IF y = Infinity THEN NegInfinity ELSE Infinity)
    ELSE IF IsFinite(y) THEN x
    ELSE IF x = y THEN NaN
    ELSE x

\* sortSign with NaN read as a negative number
sortSignNaNNegative(v) ==
    IF IsFinite(v) THEN (IF v[2] < 0 THEN -1 ELSE IF v[2] > 0 THEN 1 ELSE 0)
    ELSE IF v = Infinity THEN 1
    ELSE -1

\* how Array.prototype.sort reads the value a comparator returns: NaN is +0
sortSign(v) ==
    IF IsFinite(v) THEN (IF v[2] < 0 THEN -1 ELSE IF v[2] > 0 THEN 1 ELSE 0)
    ELSE IF v = NaN THEN 0
    ELSE IF v = NegInfinity THEN -1
    ELSE 1

-----------------------------------------------------------------------------
(* Settings                                                                *)

SortPolicies == {"default", "recent", "viewed-first", "viewed-last"}

AppliedActions == {"normal", "dim", "hide"}

Settings(sortBy, appliedAction, highlightViewed) ==
    [sortBy |-> sortBy, appliedAction |-> appliedAction,
     highlightViewed |-> highlightViewed]

\* the initial value of this.settings
defaultSettings == Settings("default", "dim", TRUE)

\* { ...a, ...b }
spread(a, b) ==
    [k \in DOMAIN a \cup DOMAIN b |-> IF k \in DOMAIN b THEN b[k] ELSE a[k]]

-----------------------------------------------------------------------------
(* processJobs: the classification pass                                    *)

ViewedClass == "linkedin-job-filter-viewed"

AppliedClass == "linkedin-job-filter-applied"

HiddenClass == "hidden"

\* addedClasses that gives viewed cards their marker whatever highlightViewed
addedClassesAlwaysHighlight(status, s) ==
    (IF status = "viewed" THEN {ViewedClass} ELSE {})
    \cup
    (IF status = "applied"
     THEN CASE s.appliedAction = "hide" -> {HiddenClass}
            [] s.appliedAction = "dim"  -> {AppliedClass}
            [] OTHER                    -> {}
     ELSE {})

\* the classes processJobs adds to a card of the given status
addedClasses(status, s) ==
    (IF status = "viewed" /\ s.highlightViewed THEN {ViewedClass} ELSE {})
    \cup
    (IF status = "applied"
     THEN CASE s.appliedAction = "hide" -> {HiddenClass}
            [] s.appliedAction = "dim"  -> {AppliedClass}
            [] OTHER                    -> {}
     ELSE {})

\* processJobs without classList.remove: the markers of earlier passes stay
processJobsKeepsMarkers(cl, d, crd, s) ==
    [j \in DOMAIN cl |->
        IF j \in Range(d)
        THEN cl[j] \cup addedClasses(jobStatus(crd[j]), s)
        ELSE cl[j]]

\* the class lists after processJobs ran over the cards of document d
processJobs(cl, d, crd, s) ==
    [j \in DOMAIN cl |->
        IF j \in Range(d)
        THEN (cl[j] \ {ViewedClass, AppliedClass, HiddenClass})
             \cup addedClasses(jobStatus(crd[j]), s)
        ELSE cl[j]]

\* jobStats that counts every card with a status other than normal as viewed
jobStatsViewedIncludesApplied(d, crd) ==
    [total   |-> Len(d),
     viewed  |-> Cardinality({j \in Range(d) : jobStatus(crd[j]) # "normal"}),
     applied |-> Cardinality({j \in Range(d) : jobStatus(crd[j]) = "applied"})]

\* the counts updateStats and the getStats branch compute
jobStats(d, crd) ==
    [total   |-> Len(d),
     viewed  |-> Cardinality({j \in Range(d) : jobStatus(crd[j]) = "viewed"}),
     applied |-> Cardinality({j \in Range(d) : jobStatus(crd[j]) = "applied"})]

-----------------------------------------------------------------------------
(* Order Ledger and sortJobs                                               *)

EmptyMap == [j \in {} |-> 0]

\* captureOriginalOrder: every card of the document gets its current index
captureOriginalOrder(d) == [j \in Range(d) |-> Pos(d, j) - 1]

\* ledgerForSort without the size check: every sort captures again
ledgerAlwaysCaptured(oo, d) == captureOriginalOrder(d)

\* the ledger sortJobs works with: captured when the map is empty
ledgerForSort(oo, d) ==
    IF DOMAIN oo = {} THEN captureOriginalOrder(d) ELSE oo

\* this.originalOrder.get(j) ?? Infinity
ledgerIndex(oo, j) == IF j \in DOMAIN oo THEN Num(oo[j]) ELSE Infinity

\* defaultCompare with the operands exchanged: larger index first
defaultCompareDescending(oo, a, b) ==
    jsMinus(ledgerIndex(oo, b), ledgerIndex(oo, a))

\* the comparator of the default branch
defaultCompare(oo, a, b) == jsMinus(ledgerIndex(oo, a), ledgerIndex(oo, b))

\* the "recent" case of the comparator, popup build
recentComparePopup(statusA, statusB) ==
    IF statusA.time = NoTime /\ statusB.time = NoTime THEN Num(0)
    ELSE IF statusA.time = NoTime THEN Num(-1)
    ELSE IF statusB.time = NoTime THEN Num(1)
    ELSE Num(statusA.time[1] - statusB.time[1])

\* the "recent" case of the comparator, panel build
recentComparePanel(statusA, statusB) ==
    IF statusA.time = NoTime /\ statusB.time = NoTime THEN Num(0)
    ELSE IF statusA.time = NoTime THEN Num(1)
    ELSE IF statusB.time = NoTime THEN Num(-1)
    ELSE Num(statusA.time[1] - statusB.time[1])

\* viewedFirstCompare that also ranks applied cards behind the other
\* cards that are not viewed
viewedFirstCompareAppliedLast(statusA, statusB) ==
    IF statusA.status = statusB.status THEN Num(0)
    ELSE IF statusA.status = "viewed" THEN Num(-1)
    ELSE IF statusB.status = "viewed" THEN Num(1)
    ELSE IF statusA.status = "applied" THEN Num(1)
    ELSE Num(-1)

viewedFirstCompare(statusA, statusB) ==
    IF statusA.status = "viewed" /\ statusB.status # "viewed" THEN Num(-1)
    ELSE IF statusA.status # "viewed" /\ statusB.status = "viewed" THEN Num(1)
    ELSE Num(0)

viewedLastCompare(statusA, statusB) ==
    IF statusA.status = "viewed" /\ statusB.status # "viewed" THEN Num(1)
    ELSE IF statusA.status # "viewed" /\ statusB.status = "viewed" THEN Num(-1)
    ELSE Num(0)

\* the comparator of the non-default branch: the switch on settings.sortBy
policyCompare(b, sortBy, statusA, statusB) ==
    CASE sortBy = "recent" ->
             IF b = "popup" THEN recentComparePopup(statusA, statusB)
             ELSE recentComparePanel(statusA, statusB)
      [] sortBy = "viewed-first" -> viewedFirstCompare(statusA, statusB)
      [] sortBy = "viewed-last"  -> viewedLastCompare(statusA, statusB)
      [] OTHER                   -> Num(0)

\* How far the clock can advance between the two getJobStatus calls of one
\* comparator call, where the result can depend on it: only the popup build
\* reads the clock (parseRelativeTime), and only "recent" uses the time.
clockDrifts(b, sortBy) ==
    IF b = "popup" /\ sortBy = "recent" THEN 0..MaxDrift ELSE {0}

\* The signs one call comparator(x, y) can return during a pass.  The
\* comparator calls getJobStatus for x and then for y.
compareSigns(b, crd, oo, sortBy, x, y) ==
    IF sortBy = "default" THEN {sortSign(defaultCompare(oo, x, y))}
    ELSE {sortSign(policyCompare(b, sortBy,
                                 getJobStatus(b, crd[x], now),
                                 getJobStatus(b, crd[y], now + d))) :
             now \in Instants, d \in clockDrifts(b, sortBy)}

\* x may stand before y in the sorted array: some call of the comparator
\* on the pair orders them so, or calls them equal and x came first
mayPrecede(jobs, signs, x, y) ==
    \/ -1 \in signs[<<x, y>>]
    \/ 1 \in signs[<<y, x>>]
    \/ /\ 0 \in signs[<<x, y>>] \cup signs[<<y, x>>]
       /\ Pos(jobs, x) < Pos(jobs, y)

\* Array.prototype.sort: the arrays a stable sort of jobs can return when a
\* call of the comparator on (x, y) returns a sign of signs[<<x, y>>]
RECURSIVE sortedArrays(_, _, _)
sortedArrays(jobs, signs, rest) ==
    IF rest = {} THEN {<<>>}
    ELSE UNION {
           {<<x>> \o tail : tail \in sortedArrays(jobs, signs, rest \ {x})} :
             x \in {z \in rest :
                      \A y \in rest \ {z} : mayPrecede(jobs, signs, z, y)}}

ArraySort(jobs, signs) == sortedArrays(jobs, signs, Range(jobs))

\* appendChild that inserts a copy and leaves the node in its old place
appendChildCopy(d, job) == Append(d, job)

\* jobList.appendChild(job): job moves to the end of the list
appendChild(d, job) == Append(Remove(d, job), job)

\* sortedJobs.forEach(job => jobList.appendChild(job))
RECURSIVE appendAll(_, _)
appendAll(d, sortedJobs) ==
    IF sortedJobs = <<>> THEN d
    ELSE appendAll(appendChild(d, Head(sortedJobs)), Tail(sortedJobs))

\* sortJobs without the return for a document that holds no card
sortJobsWithoutCardCheck(b, d, crd, oo, s) ==
    LET ledger == ledgerForSort(oo, d)
        signs  == [pr \in Range(d) \X Range(d) |->
                     compareSigns(b, crd, ledger, s.sortBy, pr[1], pr[2])]
    IN  {[doc           |-> appendAll(d, IF s.sortBy = "recent"
                                         THEN Reverse(sortedJobs)
                                         ELSE sortedJobs),
          originalOrder |-> ledger,
          appended      |-> TRUE] : sortedJobs \in ArraySort(d, signs)}

\* sortJobs: the outcomes of one call, each the document and the ledger it
\* leaves and whether it moved cards (appendChild ran)
sortJobs(b, d, crd, oo, s) ==
    IF d = <<>> THEN {[doc |-> d, originalOrder |-> oo, appended |-> FALSE]}
    ELSE LET ledger == ledgerForSort(oo, d)
             signs  == [pr \in Range(d) \X Range(d) |->
                          compareSigns(b, crd, ledger, s.sortBy, pr[1], pr[2])]
         IN  {[doc           |-> appendAll(d, IF s.sortBy = "recent"
                                              THEN Reverse(sortedJobs)
                                              ELSE sortedJobs),
               originalOrder |-> ledger,
               appended      |-> TRUE] : sortedJobs \in ArraySort(d, signs)}

-----------------------------------------------------------------------------
(* Messages                                                                *)

\* a MessageResponse: every field is optional (<<>>: absent)
Response(success, total, viewed, applied) ==
    [success |-> success, total |-> total, viewed |-> viewed,
     applied |-> applied]

successResponse == Response(<<TRUE>>, <<>>, <<>>, <<>>)

statsResponse(d, crd) ==
    LET st == jobStats(d, crd)
    IN  Response(<<>>, <<st.total>>, <<st.viewed>>, <<st.applied>>)

\* a MessageRequest: settings is optional (<<>>: absent)
Request(type, payload) == [type |-> type, settings |-> payload]

-----------------------------------------------------------------------------
(* The engine                                                              *)

\* timersAfter for an observer that is registered wherever the cards are
timersAfterAlwaysObserved(t, cardsAdded) == IF cardsAdded THEN t + 1 ELSE t

\* The observer's callback runs when the handler that changed the list has
\* returned.  It finds job cards among the added nodes and calls setTimeout.
timersAfter(t, cardsAdded) == IF observing /\ cardsAdded THEN t + 1 ELSE t

\* a handler that adds or moves cards may run: the timer count is bounded
CanSchedule == ~observing \/ timers < MaxTimers

\* The popup page: its module variables, the state indicator, the tab it
\* was opened on, and its applySettings call: phase is "closed" (no popup),
\* "idle", "query" (chrome.tabs.query called), "sent" (message sent) or
\* "answered" (the sendMessage callback is due); request is the settings
\* sent, response the answer (<<>>: undefined), storeAtClick the stored
\* settings at the click on Apply.
Popup(current, saved, changes, indicator, tab, phase, req, resp, store) ==
    [currentSettings |-> current, savedSettings |-> saved,
     hasChanges |-> changes, indicator |-> indicator, tabIsListing |-> tab,
     phase |-> phase, request |-> req, response |-> resp,
     storeAtClick |-> store]

popupClosed ==
    Popup(defaultSettings, defaultSettings, FALSE, "inactive", FALSE,
          "closed", <<>>, <<>>, <<>>)

\* The state after new JobFilterExtension(): init() has run and the storage
\* read of loadSettings is in flight; with loaded, the state once that read
\* has called back as well.
InitWith(Builds, Cards, cap, Stored, loaded, Observings) ==
    /\ build \in Builds
    /\ \E n \in 0..cap :
          /\ doc = [i \in 1..n |-> i]
          /\ card \in [1..n -> Cards]
    /\ classList = processJobs([j \in DOMAIN card |-> {}], doc, card,
                               defaultSettings)
    /\ originalOrder = EmptyMap
    /\ timers = 0
    /\ observing \in Observings
    /\ storage \in Stored
    /\ settings = IF loaded /\ storage # <<>>
                  THEN spread(defaultSettings, storage[1])
                  ELSE defaultSettings
    /\ loadPending = IF loaded THEN <<>> ELSE <<storage>>
    /\ lastOp = "init"
    /\ responses = <<>>
    /\ popup = popupClosed

\* the callback of chrome.storage.local.get in loadSettings
LoadSettingsCallback ==
    /\ loadPending # <<>>
    /\ LET result == loadPending[1]
       IN  settings' = IF result # <<>> THEN spread(settings, result[1])
                       ELSE settings
    /\ loadPending' = <<>>
    /\ lastOp' = "loadSettings"
    /\ responses' = <<>>
    /\ UNCHANGED popup
    /\ UNCHANGED <<build, doc, card, classList, originalOrder, timers,
                   observing, storage>>

\* the host page appends a job card (infinite scroll)
HostInsert(c, cap) ==
    /\ Len(doc) < cap
    /\ CanSchedule
    /\ LET j == Len(doc) + 1
       IN  /\ doc' = Append(doc, j)
           /\ card' = [k \in DOMAIN card \cup {j} |->
                          IF k = j THEN c ELSE card[k]]
           /\ classList' = [k \in DOMAIN classList \cup {j} |->
                               IF k = j THEN {} ELSE classList[k]]
    /\ timers' = timersAfter(timers, TRUE)
    /\ lastOp' = "insert"
    /\ responses' = <<>>
    /\ UNCHANGED popup
    /\ UNCHANGED <<build, settings, originalOrder, observing, storage,
                   loadPending>>

\* The host page changes the status element of card j inside the card (the
\* user viewed the job or applied for it).  No job card is among the added
\* nodes, so the observer's callback schedules nothing.
HostStatusChange(j, st) ==
    /\ j \in Range(doc)
    /\ card[j].state # st
    /\ card' = [card EXCEPT ![j].state = st]
    /\ lastOp' = "statusChange"
    /\ responses' = <<>>
    /\ UNCHANGED popup
    /\ UNCHANGED <<build, doc, classList, settings, originalOrder, timers,
                   observing, storage, loadPending>>

\* the setTimeout callback without its sortJobs call
TimerFireNoSort ==
    /\ timers > 0
    /\ classList' = processJobs(classList, doc, card, settings)
    /\ timers' = timers - 1
    /\ lastOp' = "timer"
    /\ responses' = <<>>
    /\ UNCHANGED popup
    /\ UNCHANGED <<build, doc, card, settings, originalOrder, observing,
                   storage, loadPending>>

\* the setTimeout callback calling sortJobs whatever the policy
TimerFireAlwaysSorts ==
    /\ timers > 0
    /\ classList' = processJobs(classList, doc, card, settings)
    /\ \E r \in sortJobs(build, doc, card, originalOrder, settings) :
          /\ doc' = r.doc
          /\ originalOrder' = r.originalOrder
          /\ timers' = timersAfter(timers - 1, r.appended)
    /\ lastOp' = "timer"
    /\ responses' = <<>>
    /\ UNCHANGED popup
    /\ UNCHANGED <<build, card, settings, observing, storage, loadPending>>

\* the setTimeout callback of the observer
TimerFire ==
    /\ timers > 0
    /\ classList' = processJobs(classList, doc, card, settings)
    /\ IF settings.sortBy # "default"
       THEN \E r \in sortJobs(build, doc, card, originalOrder, settings) :
               /\ doc' = r.doc
               /\ originalOrder' = r.originalOrder
               /\ timers' = timersAfter(timers - 1, r.appended)
       ELSE /\ timers' = timers - 1
            /\ UNCHANGED <<doc, originalOrder>>
    /\ lastOp' = "timer"
    /\ responses' = <<>>
    /\ UNCHANGED popup
    /\ UNCHANGED <<build, card, settings, observing, storage, loadPending>>

\* the chrome.runtime.onMessage listener
OnMessage(request) ==
    /\ IF request.type = "applySettings" /\ request.settings # <<>>
       THEN LET s == spread(settings, request.settings[1])
            IN  /\ settings' = s
                /\ storage' = <<s>>
                /\ classList' = processJobs(classList, doc, card, s)
                /\ IF s.sortBy # "default"
                   THEN /\ CanSchedule
                        /\ \E r \in sortJobs(build, doc, card,
                                             originalOrder, s) :
                              /\ doc' = r.doc
                              /\ originalOrder' = r.originalOrder
                              /\ timers' = timersAfter(timers, r.appended)
                   ELSE UNCHANGED <<doc, originalOrder, timers>>
                /\ responses' = <<successResponse>>
       ELSE /\ responses' = IF request.type = "getStats"
                            THEN <<statsResponse(doc, card)>>
                            ELSE <<>>
            /\ UNCHANGED <<settings, storage, classList, doc, originalOrder,
                           timers>>
    /\ lastOp' = request.type
    /\ UNCHANGED <<build, card, observing, loadPending>>

\* the change handler of the panel's sort select
SortSelectChange(value) ==
    /\ build = "panel"
    /\ CanSchedule
    /\ LET s == [settings EXCEPT !.sortBy = value]
       IN  /\ settings' = s
           /\ storage' = <<s>>
           /\ \E r \in sortJobs(build, doc, card, originalOrder, s) :
                 /\ doc' = r.doc
                 /\ originalOrder' = r.originalOrder
                 /\ timers' = timersAfter(timers, r.appended)
    /\ lastOp' = "sortSelect"
    /\ responses' = <<>>
    /\ UNCHANGED popup
    /\ UNCHANGED <<build, card, classList, observing, loadPending>>

\* the change handler of the panel's applied-action radios
AppliedActionChange(value) ==
    /\ build = "panel"
    /\ LET s == [settings EXCEPT !.appliedAction = value]
       IN  /\ settings' = s
           /\ storage' = <<s>>
           /\ classList' = processJobs(classList, doc, card, s)
    /\ lastOp' = "appliedAction"
    /\ responses' = <<>>
    /\ UNCHANGED popup
    /\ UNCHANGED <<build, doc, card, originalOrder, timers, observing,
                   loadPending>>

\* the change handler of the panel's highlight checkbox
HighlightViewedChange(checked) ==
    /\ build = "panel"
    /\ LET s == [settings EXCEPT !.highlightViewed = checked]
       IN  /\ settings' = s
           /\ storage' = <<s>>
           /\ classList' = processJobs(classList, doc, card, s)
    /\ lastOp' = "highlightViewed"
    /\ responses' = <<>>
    /\ UNCHANGED popup
    /\ UNCHANGED <<build, doc, card, originalOrder, timers, observing,
                   loadPending>>

-----------------------------------------------------------------------------
(* The popup page (control surface)                                        *)

\* the indicator class updateStateIndicator sets
updateStateIndicator(changes) == IF changes THEN "pending" ELSE "active"

\* updateSettingsFromUI: the controls are read into currentSettings and
\* compared with savedSettings
updateSettingsFromUI(p, ui) ==
    [p EXCEPT !.currentSettings = ui,
              !.hasChanges = (ui # p.savedSettings),
              !.indicator = updateStateIndicator(ui # p.savedSettings)]

\* DOMContentLoaded on a tab that is a job listing or not: loadSettings and
\* checkTabStatus with their callbacks
PopupOpen(tab) ==
    /\ popup.phase = "closed"
    /\ LET loaded == IF storage # <<>> THEN spread(defaultSettings, storage[1])
                     ELSE defaultSettings
       IN  popup' = Popup(loaded, loaded, FALSE,
                          IF tab THEN updateStateIndicator(FALSE)
                          ELSE "inactive",
                          tab, "idle", <<>>, <<>>, <<>>)
    /\ UNCHANGED <<build, doc, card, classList, settings, originalOrder,
                   timers, observing, storage, loadPending, lastOp, responses>>

\* a change event of the sort select, the checkbox or a radio button
PopupChange(ui) ==
    /\ popup.phase # "closed"
    /\ ui # popup.currentSettings
    /\ popup' = updateSettingsFromUI(popup, ui)
    /\ UNCHANGED <<build, doc, card, classList, settings, originalOrder,
                   timers, observing, storage, loadPending, lastOp, responses>>

\* applySettings of the popup, up to its chrome.tabs.query call
PopupApplyClick ==
    /\ popup.phase = "idle"
    /\ popup' = [updateSettingsFromUI(popup, popup.currentSettings)
                    EXCEPT !.phase = "query", !.storeAtClick = storage]
    /\ storage' = <<popup.currentSettings>>
    /\ UNCHANGED <<build, doc, card, classList, settings, originalOrder,
                   timers, observing, loadPending, lastOp, responses>>

\* the callback of chrome.tabs.query: the request is sent to a listing tab
PopupTabsCallback ==
    /\ popup.phase = "query"
    /\ popup' = IF popup.tabIsListing
                THEN [popup EXCEPT !.phase = "sent",
                                   !.request = <<popup.currentSettings>>]
                ELSE [popup EXCEPT !.phase = "idle", !.indicator = "inactive"]
    /\ UNCHANGED <<build, doc, card, classList, settings, originalOrder,
                   timers, observing, storage, loadPending, lastOp, responses>>

\* the engine's listener receives the popup's request
PopupDeliver ==
    /\ popup.phase = "sent"
    /\ OnMessage(Request("applySettings", popup.request))
    /\ popup' = [popup EXCEPT !.phase = "answered", !.response = responses']

\* no listener in the tab: the callback gets an undefined response
PopupNoReceiver ==
    /\ popup.phase = "sent"
    /\ popup' = [popup EXCEPT !.phase = "answered", !.response = <<>>]
    /\ UNCHANGED <<build, doc, card, classList, settings, originalOrder,
                   timers, observing, storage, loadPending, lastOp, responses>>

\* response?.success
succeeded(response) == response # <<>> /\ response[1].success = <<TRUE>>

\* the callback of chrome.tabs.sendMessage (loadStats and the button's
\* feedback, which touch the counters and the button only, are left out)
PopupResponse ==
    /\ popup.phase = "answered"
    /\ popup' = IF succeeded(popup.response)
                THEN [popup EXCEPT !.phase = "idle",
                                   !.savedSettings = popup.currentSettings,
                                   !.hasChanges = FALSE,
                                   !.indicator = updateStateIndicator(FALSE)]
                ELSE [popup EXCEPT !.phase = "idle", !.indicator = "error"]
    /\ UNCHANGED <<build, doc, card, classList, settings, originalOrder,
                   timers, observing, storage, loadPending, lastOp, responses>>

-----------------------------------------------------------------------------
(* The ordering engine: cards that differ in status, every sort policy     *)

\* a viewed card and a card without a status element
StatusCards == {Card(TRUE, 1, 0), Card(TRUE, 0, 0)}

PolicyPayloads == {Settings(p, "dim", TRUE) : p \in SortPolicies}

Init ==
    InitWith({"popup", "panel"}, StatusCards, MaxItems, {<<>>}, TRUE, BOOLEAN)

ApplySettings(payload) ==
    OnMessage(Request("applySettings", <<payload>>)) /\ UNCHANGED popup

ApplySettingsNoPayload ==
    OnMessage(Request("applySettings", <<>>)) /\ UNCHANGED popup

GetStats == OnMessage(Request("getStats", <<>>)) /\ UNCHANGED popup

Next ==
    \/ \E c \in StatusCards : HostInsert(c, MaxItems)
    \/ TimerFire
    \/ \E p \in PolicyPayloads : ApplySettings(p)
    \/ \E v \in SortPolicies : SortSelectChange(v)

Spec == Init /\ [][Next]_vars

\* The incremental-load scenario: the panel build on an observed list, with
\* viewed-first applied by the popup, cards inserted by the page, the
\* reactor's passes, and the panel's sort select set back to default.
InitIncremental ==
    InitWith({"panel"}, StatusCards, MaxItems, {<<>>}, TRUE, {TRUE})

NextIncremental ==
    \/ \E c \in StatusCards : HostInsert(c, MaxItems)
    \/ TimerFire
    \/ ApplySettings(Settings("viewed-first", "dim", TRUE))
    \/ SortSelectChange("default")

SpecIncremental == InitIncremental /\ [][NextIncremental]_vars

-----------------------------------------------------------------------------
(* The message listener: requests of the popup, with the storage read of   *)
(* loadSettings still in flight at the start                               *)

\* the cards a listing holds at most in the message and marker scenarios
MaxListed == 2

\* a viewed card, an applied card and a card without a status element
MessageCards == {Card(TRUE, 1, 0), Card(TRUE, 2, 0), Card(TRUE, 0, 0)}

StoredSettings == {<<>>, <<Settings("viewed-last", "hide", FALSE)>>}

MessagePayloads ==
    {Settings("default", "normal", TRUE), Settings("viewed-first", "hide", FALSE)}

InitMessages ==
    InitWith({"popup", "panel"}, MessageCards, MaxListed, StoredSettings,
             FALSE, {TRUE})

NextMessages ==
    \/ LoadSettingsCallback
    \/ \E c \in MessageCards : HostInsert(c, MaxListed)
    \/ TimerFire
    \/ \E p \in MessagePayloads : ApplySettings(p)
    \/ ApplySettingsNoPayload
    \/ GetStats
    \/ \E v \in AppliedActions : AppliedActionChange(v)
    \/ \E b \in BOOLEAN : HighlightViewedChange(b)

SpecMessages == InitMessages /\ [][NextMessages]_vars

-----------------------------------------------------------------------------
(* The popup applying settings: on a listing tab or another tab, with or   *)
(* without a listener in the tab                                           *)

\* the settings the user can choose in the popup
PopupChoices ==
    {defaultSettings, Settings("viewed-first", "hide", FALSE),
     Settings("recent", "dim", TRUE)}

InitPopup ==
    InitWith({"popup"}, MessageCards, MaxListed, StoredSettings, TRUE, {FALSE})

NextPopup ==
    \/ \E tab \in BOOLEAN : PopupOpen(tab)
    \/ \E ui \in PopupChoices : PopupChange(ui)
    \/ PopupApplyClick
    \/ PopupTabsCallback
    \/ PopupDeliver
    \/ PopupNoReceiver
    \/ PopupResponse

SpecPopup == InitPopup /\ [][NextPopup]_vars

-----------------------------------------------------------------------------
(* The markers: classification passes with every setting of the two marker *)
(* axes, on cards whose status the page changes                            *)

MarkerPayloads ==
    {Settings("default", a, h) : a \in AppliedActions, h \in BOOLEAN}

InitMarkers ==
    InitWith({"popup", "panel"}, MessageCards, MaxListed, {<<>>}, TRUE, BOOLEAN)

NextMarkers ==
    \/ \E c \in MessageCards : HostInsert(c, MaxListed)
    \/ \E j \in 1..MaxListed, c \in MessageCards : HostStatusChange(j, c.state)
    \/ TimerFire
    \/ \E p \in MarkerPayloads : ApplySettings(p)
    \/ GetStats
    \/ \E v \in AppliedActions : AppliedActionChange(v)
    \/ \E b \in BOOLEAN : HighlightViewedChange(b)

SpecMarkers == InitMarkers /\ [][NextMarkers]_vars

-----------------------------------------------------------------------------
(* A sortBy value outside the four policies, received in a request         *)

UnknownPolicy == "newest"

UnknownPolicyPayloads ==
    {Settings(p, "dim", TRUE) : p \in {"default", "viewed-first", UnknownPolicy}}

InitUnknownPolicy ==
    InitWith({"popup", "panel"}, StatusCards, MaxItems, {<<>>}, TRUE, BOOLEAN)

NextUnknownPolicy ==
    \/ \E c \in StatusCards : HostInsert(c, MaxItems)
    \/ TimerFire
    \/ \E p \in UnknownPolicyPayloads : ApplySettings(p)
    \/ SortSelectChange("default")

SpecUnknownPolicy == InitUnknownPolicy /\ [][NextUnknownPolicy]_vars

-----------------------------------------------------------------------------
(* Sorting by recency: listings of cards that differ in their time element, *)
(* in every document order, on a list the page no longer extends           *)

\* the cards a listing holds at most in the recency scenario
MaxRecent == 4

\* cards without a time element and with "10 minutes ago", "2 hours ago",
\* "4 hours ago"
RecentCards == {Card(TRUE, 0, t) : t \in 0..3}

InitRecent ==
    InitWith({"popup", "panel"}, RecentCards, MaxRecent, {<<>>}, TRUE, {FALSE})

NextRecent ==
    \/ ApplySettings(Settings("recent", "dim", TRUE))
    \/ SortSelectChange("recent")

SpecRecent == InitRecent /\ [][NextRecent]_vars

-----------------------------------------------------------------------------
(* Sorting by status: viewed, applied and other cards on a list that is    *)
(* not observed                                                            *)

PartitionPolicies == {"default", "viewed-first", "viewed-last"}

InitPartition ==
    InitWith({"popup", "panel"}, MessageCards, MaxItems, {<<>>}, TRUE, {FALSE})

NextPartition ==
    \/ \E c \in MessageCards : HostInsert(c, MaxItems)
    \/ \E p \in PartitionPolicies : ApplySettings(Settings(p, "dim", TRUE))
    \/ \E v \in PartitionPolicies : SortSelectChange(v)

SpecPartition == InitPartition /\ [][NextPartition]_vars

-----------------------------------------------------------------------------
(* Properties of the ordering engine                                       *)

\* Cards are numbered in the order the page showed them first: the initial
\* cards in document order, then each inserted card.
DiscoveryOrder == [i \in 1..Len(doc) |-> i]

\* the handler that ran last called sortJobs
SortRan ==
    \/ lastOp = "sortSelect"
    \/ lastOp = "timer" /\ settings.sortBy # "default"
    \/ lastOp = "applySettings" /\ responses # <<>>
                                /\ settings.sortBy # "default"

\* the handler that ran last called sortJobs with policy default
DefaultSortRan == lastOp = "sortSelect" /\ settings.sortBy = "default"

\* the cards of the document that have a ledger entry, in document order
Recorded(d, oo) == SelectSeq(d, LAMBDA j : j \in DOMAIN oo)

Unrecorded(d, oo) == SelectSeq(d, LAMBDA j : j \notin DOMAIN oo)

\* C1: when the reactor has reprocessed the list under viewed-first and the
\* sort then runs with policy default, the document shows the cards in
\* discovery order: the cards of the first batch in their original order,
\* then the cards inserted later in the order they were inserted.
C1_DefaultRestoresDiscoveryOrder ==
    [][(/\ lastOp = "timer"
        /\ settings.sortBy = "viewed-first"
        /\ DefaultSortRan') => doc' = [i \in 1..Len(doc') |-> i]]_vars

\* C2: when a sort has completed, every card of the document has a ledger
\* entry, and its index is its place in discovery order (cards of later
\* batches get the next unused indices).
C2_SortRecordsEveryCard ==
    SortRan => \A j \in Range(doc) :
                   j \in DOMAIN originalOrder /\ originalOrder[j] = j - 1

C4_AtMostOneTimer == timers <= 1

\* C6: a reprocess pass schedules no further pass: when the timer callback
\* has run, one timer fewer is outstanding.
C6_PassSchedulesNoPass == [][lastOp' = "timer" => timers' < timers]_vars

\* C10: a sort with policy default that directly follows a sort with policy
\* default leaves the document order as it is.
C10_DefaultSortIdempotent ==
    [][(DefaultSortRan /\ DefaultSortRan') => doc' = doc]_vars

\* a default sort ran on a document that holds cards without a ledger entry
\* and cards with one, and the timer it scheduled shows it moved cards
C10_Witness ==
    /\ DefaultSortRan
    /\ Len(Unrecorded(doc, originalOrder)) >= 2
    /\ Len(Recorded(doc, originalOrder)) >= 1
    /\ doc # DiscoveryOrder

-----------------------------------------------------------------------------
(* Properties of the message listener                                      *)

\* C5: the listener answers every request exactly once: when it has handled
\* an applySettings request (with or without settings) or a getStats
\* request, sendResponse has been called once.
C5_EveryRequestAnsweredOnce ==
    lastOp \in {"applySettings", "getStats"} => Len(responses) = 1

-----------------------------------------------------------------------------
(* Properties of the policies                                              *)

\* the time the classifier derives for card j
timeOf(j) == getJobStatus(build, card[j], CHOOSE now \in Instants : TRUE).time

isViewed(j) == jobStatus(card[j]) = "viewed"

\* the handler that ran last called sortJobs with policy recent
RecentSortRan == SortRan /\ settings.sortBy = "recent"

\* C7: after a sort with policy recent, every card with a time stands before
\* every card without one, and the cards with a time stand newest first.
C7_RecentOrdering ==
    RecentSortRan =>
        \A i, k \in DOMAIN doc :
            i < k =>
                /\ timeOf(doc[i]) = NoTime => timeOf(doc[k]) = NoTime
                /\ (timeOf(doc[i]) # NoTime /\ timeOf(doc[k]) # NoTime)
                       => timeOf(doc[i])[1] >= timeOf(doc[k])[1]

\* C8: a sort with policy recent that directly follows a sort with policy
\* recent leaves the document order as it is (cards of equal recency are
\* not reordered).
C8_RecentTwiceIsOnce ==
    [][(RecentSortRan /\ RecentSortRan') => doc' = doc]_vars

\* x stands before y in d
Before(d, x, y) == Pos(d, x) < Pos(d, y)

\* C9: a sort with policy viewed-first (viewed-last) puts every viewed card
\* before (after) every other card, and keeps the order the cards had before
\* the sort inside the viewed cards and inside the other cards, applied or
\* not; a sort with policy default keeps the order the cards without a
\* ledger entry had before the sort.
C9_StablePartition ==
    [][/\ (SortRan' /\ settings'.sortBy \in {"viewed-first", "viewed-last"}) =>
            /\ \A x, y \in Range(doc') :
                  (isViewed(x)' /\ ~isViewed(y)') =>
                      IF settings'.sortBy = "viewed-first"
                      THEN Before(doc', x, y) ELSE Before(doc', y, x)
            /\ \A x, y \in Range(doc) :
                  (isViewed(x) = isViewed(y) /\ Before(doc, x, y))
                      => Before(doc', x, y)
       /\ DefaultSortRan' =>
            \A x, y \in Range(doc) \ DOMAIN originalOrder' :
                Before(doc, x, y) => Before(doc', x, y)
      ]_vars

\* a viewed-first sort moved a viewed card before an applied card and another
\* card, which kept their order
C9_Witness ==
    /\ SortRan
    /\ settings.sortBy = "viewed-first"
    /\ \E v, a, n \in Range(doc) :
          /\ isViewed(v)
          /\ jobStatus(card[a]) = "applied"
          /\ jobStatus(card[n]) = "normal"
          /\ n < a /\ a < v
          /\ Before(doc, v, n) /\ Before(doc, n, a)

-----------------------------------------------------------------------------
(* Restoring the original order                                            *)

\* every card of the document has a ledger entry: no card was inserted
\* since the first sort
AllRecorded == Range(doc) \subseteq DOMAIN originalOrder

\* C11: when no card was inserted since the first sort, a sort with policy
\* default, after whatever sorts under the other policies, leaves the
\* document in the order it had before the first sort.
C11_DefaultRoundTrip == (DefaultSortRan /\ AllRecorded) => doc = DiscoveryOrder

\* a default sort ran on an observed list of three recorded cards that both
\* viewed-first and viewed-last reorder, with the timers of earlier sorts
\* still pending
C11_Witness ==
    /\ DefaultSortRan
    /\ AllRecorded
    /\ Len(doc) >= 3
    /\ timers >= 2
    /\ \E x, y, z \in Range(doc) :
          /\ Before(doc, x, y) /\ Before(doc, y, z)
          /\ isViewed(x) /\ ~isViewed(y) /\ isViewed(z)

\* the cards with a ledger entry stand in the order of their indices
RecordedInLedgerOrder ==
    \A x, y \in Range(doc) \cap DOMAIN originalOrder :
        originalOrder[x] < originalOrder[y] => Before(doc, x, y)

\* the listener handled an applySettings request with settings
AppliedSettings == lastOp = "applySettings" /\ responses # <<>>

\* C12: when the listener has handled an applySettings request whose
\* settings have sortBy default, the recorded cards stand in ledger order.
C12_ApplyDefaultRestores ==
    (AppliedSettings /\ settings.sortBy = "default") => RecordedInLedgerOrder

-----------------------------------------------------------------------------
(* Properties of the markers                                               *)

isApplied(j) == jobStatus(card[j]) = "applied"

\* the handler that ran last ended with a classification pass (processJobs,
\* and after it at most a sort)
PassRan ==
    \/ lastOp \in {"timer", "appliedAction", "highlightViewed"}
    \/ AppliedSettings

\* C13: no card carries the dim marker and the hidden marker at the same
\* time; after a pass with appliedAction hide an applied card carries the
\* hidden marker and not the dim marker.
C13_AppliedAxisExclusive ==
    /\ \A j \in DOMAIN classList :
          ~({AppliedClass, HiddenClass} \subseteq classList[j])
    /\ (PassRan /\ settings.appliedAction = "hide") =>
          \A j \in Range(doc) :
              isApplied(j) =>
                  HiddenClass \in classList[j] /\ AppliedClass \notin classList[j]

\* the panel's radio switched to hide and the pass marked an applied card,
\* dimmed until then, as hidden
C13_Witness ==
    /\ lastOp = "appliedAction"
    /\ settings.appliedAction = "hide"
    /\ \E j \in Range(doc) : isApplied(j) /\ classList[j] = {HiddenClass}

\* C19: after a classification pass every card of the document carries the
\* viewed marker iff it is viewed and highlightViewed is set, the hidden
\* marker iff it is applied and appliedAction is hide, and the dim marker iff
\* it is applied and appliedAction is dim.
C19_MarkersAfterPass ==
    PassRan =>
        \A j \in Range(doc) :
            /\ ViewedClass \in classList[j]
                   <=> (isViewed(j) /\ settings.highlightViewed)
            /\ HiddenClass \in classList[j]
                   <=> (isApplied(j) /\ settings.appliedAction = "hide")
            /\ AppliedClass \in classList[j]
                   <=> (isApplied(j) /\ settings.appliedAction = "dim")

\* the reactor's pass ran with highlighting off and appliedAction normal on
\* a viewed and an applied card: neither carries a marker
C19_Witness ==
    /\ lastOp = "timer"
    /\ ~settings.highlightViewed
    /\ settings.appliedAction = "normal"
    /\ \E v, a \in Range(doc) :
          /\ isViewed(v) /\ classList[v] = {}
          /\ isApplied(a) /\ classList[a] = {}

-----------------------------------------------------------------------------
(* Properties of the applier                                               *)

\* C14: a sort only repositions: the document after it holds the cards it
\* held before, each once, and the sort leaves the markers as the handler's
\* classification pass (if it has one) set them.
C14_SortOnlyRepositions ==
    [][SortRan' =>
          /\ Len(doc') = Len(doc)
          /\ Range(doc') = Range(doc)
          /\ Cardinality(Range(doc')) = Len(doc')
          /\ classList' = IF lastOp' = "sortSelect" THEN classList
                          ELSE processJobs(classList, doc, card, settings')
      ]_vars

\* a sort that moved cards of a list of three marked and unmarked cards
C14_Witness ==
    /\ SortRan
    /\ Len(doc) >= 3
    /\ doc # DiscoveryOrder
    /\ \E x, y \in Range(doc) : classList[x] # {} /\ classList[y] = {}

\* C15: a sort with a sortBy value outside the four policies leaves the
\* recorded cards in ledger order, as a sort with policy default does.
C15_UnknownPolicyIsDefault ==
    (SortRan /\ settings.sortBy \notin SortPolicies) => RecordedInLedgerOrder

-----------------------------------------------------------------------------
(* Properties of getStats and of the reactor's pass                        *)

\* C17: the answer to a getStats request carries the number of cards in the
\* document as total and the numbers of cards whose status is now viewed
\* and now applied.
C17_GetStatsCounts ==
    lastOp = "getStats" =>
        responses =
            <<Response(<<>>, <<Len(doc)>>,
                       <<Cardinality({i \in DOMAIN doc : isViewed(doc[i])})>>,
                       <<Cardinality({i \in DOMAIN doc : isApplied(doc[i])})>>)>>

\* getStats was answered for a list with an applied card and a viewed card
\* that still carries the dim marker of the pass before its status changed
C17_Witness ==
    /\ lastOp = "getStats"
    /\ \E v, a \in Range(doc) :
          /\ isViewed(v) /\ AppliedClass \in classList[v]
          /\ isApplied(a)

\* C18: when the timer callback has run, every card of the document, the
\* inserted ones included, carries the markers of its status; with
\* viewed-first (viewed-last) active no other card stands before (after) a
\* viewed card; with default active the callback moved no card.
C18_PassUsesActivePolicy ==
    [][lastOp' = "timer" =>
          /\ \A j \in Range(doc') :
                classList'[j] = addedClasses(jobStatus(card'[j]), settings')
          /\ settings'.sortBy = "viewed-first" =>
                \A x, y \in Range(doc') :
                    (isViewed(x)' /\ ~isViewed(y)') => Before(doc', x, y)
          /\ settings'.sortBy = "viewed-last" =>
                \A x, y \in Range(doc') :
                    (isViewed(x)' /\ ~isViewed(y)') => Before(doc', y, x)
          /\ settings'.sortBy = "default" => doc' = doc
      ]_vars

\* the timer callback ran under viewed-first and moved a viewed card that
\* was inserted after the first sort before a recorded card
C18_Witness ==
    /\ lastOp = "timer"
    /\ settings.sortBy = "viewed-first"
    /\ \E x, y \in Range(doc) :
          /\ x \notin DOMAIN originalOrder /\ y \in DOMAIN originalOrder
          /\ isViewed(x) /\ ~isViewed(y)
          /\ ViewedClass \in classList[x]
          /\ Before(doc, x, y)

\* C20: a getStats request and a classification pass without a sort (the
\* timer callback and applySettings under default, the panel's marker
\* handlers) leave the ledger and the document order as they are, the first
\* two the settings as well; the ledger stays empty until a sort runs.
C20_ClassificationKeepsOrder ==
    [][/\ (\/ lastOp' = "getStats"
           \/ lastOp' = "timer" /\ settings.sortBy = "default")
          => UNCHANGED <<originalOrder, doc, settings>>
       /\ (\/ lastOp' \in {"appliedAction", "highlightViewed"}
           \/ lastOp' = "applySettings" /\ settings'.sortBy = "default")
          => UNCHANGED <<originalOrder, doc>>
       /\ (originalOrder = EmptyMap /\ originalOrder' # EmptyMap) => SortRan'
      ]_vars

\* the timer callback classified a list of two cards under default and the
\* ledger is still empty
C20_Witness ==
    /\ lastOp = "timer"
    /\ settings.sortBy = "default"
    /\ originalOrder = EmptyMap
    /\ Len(doc) >= 2
    /\ \E j \in Range(doc) : classList[j] # {}

-----------------------------------------------------------------------------
(* Properties of the popup                                                 *)

\* C16: when an applySettings call of the popup ends without success (the
\* answer is missing or not success, or the tab is no listing page), the
\* popup keeps savedSettings and hasChanges, shows the error (inactive)
\* state, sends nothing again, and the stored settings are those of before
\* the click on Apply.
C16_FailedApplyChangesNothing ==
    [][(/\ popup.phase \in {"answered", "query"}
        /\ popup'.phase = "idle"
        /\ ~(popup.phase = "answered" /\ succeeded(popup.response)))
       =>
       /\ popup'.savedSettings = popup.savedSettings
       /\ popup'.hasChanges = popup.hasChanges
       /\ popup'.indicator = IF popup.phase = "answered" THEN "error"
                             ELSE "inactive"
       /\ popup'.request = popup.request
       /\ storage' = popup.storeAtClick
      ]_vars

-----------------------------------------------------------------------------
(* Properties of the engine without cards or without a list container      *)

C22_MissingContainerTolerated ==
    ~observing =>
        /\ timers = 0
        /\ lastOp = "init" =>
              \A j \in Range(doc) :
                  classList[j] = addedClasses(jobStatus(card[j]), defaultSettings)
        /\ lastOp = "applySettings" => responses = <<successResponse>>
        /\ lastOp = "getStats" =>
              /\ Len(responses) = 1
              /\ responses[1].total = <<Len(doc)>>

\* on a page without list container a getStats request was answered about
\* two or more cards, one of them classified and left without marker
C22_Witness ==
    /\ ~observing
    /\ lastOp = "getStats"
    /\ Len(doc) >= 2
    /\ \E j \in Range(doc) : classList[j] = {}  /\ jobStatus(card[j]) # "normal"

-----------------------------------------------------------------------------
(* The classifier on every kind of card                                    *)

\* cards with and without footer, without status element and with each of
\* the status texts
ClassifierCards ==
    {Card(f, s, 0) : f \in BOOLEAN, s \in 0..Len(StateTexts)}

InitClassifier ==
    InitWith({"popup", "panel"}, ClassifierCards, MaxListed, {<<>>}, TRUE,
             BOOLEAN)

NextClassifier ==
    \/ \E c \in ClassifierCards : HostInsert(c, MaxListed)
    \/ TimerFire
    \/ \E p \in MarkerPayloads : ApplySettings(p)
    \/ GetStats

SpecClassifier == InitClassifier /\ [][NextClassifier]_vars

\* the status text of card j, read off the page: " Viewed " and
\* "Viewed - applied" contain "viewed" once lower-cased, "Applied" and
\* "Viewed - applied" contain "applied"; a card without footer has no
\* status element
saysViewed(j) == card[j].footer /\ card[j].state \in {1, 3}

saysApplied(j) == card[j].footer /\ card[j].state \in {2, 3}

\* first match wins
statedStatus(j) ==
    IF saysViewed(j) THEN "viewed"
    ELSE IF saysApplied(j) THEN "applied" ELSE "normal"

\* C23: every card is counted and marked as viewed if its status text
\* contains "viewed" (whether or not it also contains "applied"), else as
\* applied if it contains "applied", else as normal; a card without status
\* element or without footer is normal.
C23_ClassificationFirstMatch ==
    /\ lastOp = "getStats" =>
          /\ Len(responses) = 1
          /\ responses[1].viewed =
                <<Cardinality({i \in DOMAIN doc : statedStatus(doc[i]) = "viewed"})>>
          /\ responses[1].applied =
                <<Cardinality({i \in DOMAIN doc : statedStatus(doc[i]) = "applied"})>>
    /\ PassRan =>
          \A j \in Range(doc) :
              classList[j] = addedClasses(statedStatus(j), settings)

\* getStats was answered for a card that says "Viewed - applied" and a card
\* whose status element stands outside a footer
C23_Witness ==
    /\ lastOp = "getStats"
    /\ \E j, k \in Range(doc) :
          /\ card[j] = Card(TRUE, 3, 0)
          /\ card[k] = Card(FALSE, 2, 0)

-----------------------------------------------------------------------------
(* The popup build on cards whose time element states a relative time      *)

\* the cards a listing holds at most in the parsing scenario
MaxParsed == 1

\* cards without a time element and with each of the time elements
ParseCards == {Card(TRUE, 0, t) : t \in 0..Len(TimeEls)}

ParsePayloads == {Settings(o, "dim", TRUE) : o \in {"default", "recent"}}

InitParse ==
    InitWith({"popup"}, ParseCards, MaxParsed, {<<>>}, TRUE, {TRUE})

NextParse ==
    \/ \E c \in ParseCards : HostInsert(c, MaxParsed)
    \/ TimerFire
    \/ \E p \in ParsePayloads : ApplySettings(p)
    \/ GetStats

SpecParse == InitParse /\ [][NextParse]_vars

\* the readings of the clock while a handler runs
ParseInstants == {t + d : t \in Instants, d \in 0..MaxDrift}

\* the durations of the units in milliseconds
unitDuration == [minute |-> 60000, hour |-> 3600000, day |-> 86400000,
                 week |-> 604800000]

\* card j has the k-th generated time element
saysAgo(j, k) == card[j].time = Len(SampleTimeEls) + k

\* C24: for a card whose time text is "n unit(s) ago" the classifier derives
\* the clock reading minus n times the duration of the stated unit (60 s,
\* 3600 s, 86400 s, 7 * 24 * 3600 s); "59 minutes ago" and "1 hour ago" are
\* 60 s apart on the same clock reading, and a text of the page that states
\* a count in lower case gives the clock reading minus the age its datetime
\* attribute states; for a card without time element or with the text
\* "yesterday" it derives no time.
C24_RelativeTimeParsing ==
    \A j \in Range(doc) : \A now \in ParseInstants :
        /\ \A k \in DOMAIN AgoTimeEls :
              saysAgo(j, k) =>
                  getJobStatus(build, card[j], now).time
                      = <<now - agoCount(k) * unitDuration[agoUnit(k)]>>
        /\ card[j].time \in {0, 8} =>
              getJobStatus(build, card[j], now).time = NoTime
        /\ card[j].time \in 1..6 =>
              getJobStatus(build, card[j], now).time
                  = <<now - (PageInstant
                               - SampleTimeEls[card[j].time].datetime[1])>>
        /\ card[j].time = 5 =>
              getJobStatus(build, card[j], now).time
                  = <<getJobStatus(build, Card(TRUE, 0, 6), now).time[1]
                        + 60 * 1000>>

\* a pass has run on a card that says "2 weeks ago"
C24_Witness ==
    /\ lastOp = "applySettings"
    /\ settings.sortBy = "recent"
    /\ \E j \in Range(doc), k \in DOMAIN AgoTimeEls :
          /\ saysAgo(j, k)
          /\ agoCount(k) = 2 /\ agoUnit(k) = "week" /\ agoPlural(k)

-----------------------------------------------------------------------------
(* Properties of the settings load at the start                            *)

\* every card of the document carries the markers of its status under s
MarkersReflect(s) ==
    \A j \in Range(doc) : classList[j] = addedClasses(jobStatus(card[j]), s)

\* C25: when the callback of the settings load has run and no pass is
\* scheduled (nothing more happens unless the page inserts a card or a
\* request arrives), the markers of the cards are those of the loaded
\* appliedAction and highlightViewed.
C25_LoadedSettingsTakeEffect ==
    (lastOp = "loadSettings" /\ timers = 0) => MarkersReflect(settings)

\* C26: the callback of the settings load that runs after the listener has
\* handled an applySettings request leaves the settings of that request in
\* place.
C26_LatestApplyWins ==
    [][(AppliedSettings /\ lastOp' = "loadSettings") => settings' = settings]_vars

-----------------------------------------------------------------------------
(* Properties of the popup while its request is in flight                  *)

\* C27: when the response callback of a successful apply has set the popup
\* to the active state with hasChanges false, savedSettings are the
\* settings of the request the engine acknowledged, whatever the user
\* changed while the request was in flight.
C27_SavedIsAcknowledged ==
    [][(/\ popup.phase = "answered"
        /\ succeeded(popup.response)
        /\ popup'.phase = "idle")
       =>
       /\ popup'.indicator = "active"
       /\ ~popup'.hasChanges
       /\ popup'.savedSettings = popup.request[1]
      ]_vars

-----------------------------------------------------------------------------
(* Properties of the recent order and the clock                            *)

\* the sign of comparator(x, y) of policy recent when both cards are
\* classified on the same reading of the clock
stillClockSigns(b, crd, x, y) ==
    {sortSign(policyCompare(b, "recent", getJobStatus(b, crd[x], now),
                            getJobStatus(b, crd[y], now))) :
        now \in Instants}

\* the documents a recent sort of d leaves when the clock stands still
\* during the pass
stillClockOrders(b, d, crd) ==
    {appendAll(d, Reverse(sortedJobs)) :
        sortedJobs \in ArraySort(d, [pr \in Range(d) \X Range(d) |->
                                       stillClockSigns(b, crd, pr[1], pr[2])])}

\* C28: the document a recent sort of the popup build leaves is the one the
\* time texts and the order before the sort determine: it is the same as
\* with a clock that stands still during the pass, and that one is unique
\* (two cards with the same time text compare as equal).
C28_RecentOrderIgnoresClock ==
    [][(RecentSortRan' /\ build = "popup") =>
          /\ Cardinality(stillClockOrders(build, doc, card)) = 1
          /\ doc' \in stillClockOrders(build, doc, card)
      ]_vars

====
